---- MODULE Spec2Model ----
(***************************************************************************)
(* Model of web_code.py: the Streamlit weather dashboard.                  *)
(*                                                                         *)
(*   - load_data (memoised by @st.cache_data): read the seed CSV, connect  *)
(*     to the store, seed the collection when it is empty, read it back,   *)
(*     clean the table; a catch-all except branch reports one error and    *)
(*     returns an empty table.                                             *)
(*   - the module-level render pass: df = load_data(), then either the     *)
(*     fixed sequence of chart steps or the "No data available" warning.   *)
(*                                                                         *)
(* A table (pandas DataFrame) is a record [cols, rows]: cols is the        *)
(* sequence of column labels, rows a sequence of functions from the        *)
(* labels to cell values.                                                  *)
(***************************************************************************)
EXTENDS Integers, Sequences, FiniteSets, TLC

VARIABLES
    fileState,   \* "ok" | "missing": the seed CSV of line 38
    fileN,       \* number of records in the seed CSV
    fileCols,    \* header of the seed CSV (sequence of labels)
    datesOK,     \* whether the file's date strings are parseable
    storeUp,     \* whether the MongoDB server accepts connections
    coll,        \* documents of local.webscrops_data, in insertion order
    cache,       \* the st.cache_data entry of load_data
    bodyRuns,    \* executions of load_data's body by this server process
    bodyResult,  \* what the body returned when it last ran in this process
    pc,          \* position of the script run
    df,          \* the script's df
    notices,     \* st.error / st.warning elements of the current run
    emitted,     \* charts emitted by the current run, in order
    last,        \* the last load_data call: [hit, ops, fault]
    wind_counts, \* the pivot table of line 211
    seedCrashed, \* a seeding insert_many stopped part-way
    cl           \* harness for the cleaning stage: [step, T, once, twice]

vars == <<fileState, fileN, fileCols, datesOK, storeUp, coll, cache, bodyRuns,
          bodyResult, pc, df, notices, emitted, last, wind_counts, seedCrashed, cl>>

-----------------------------------------------------------------------------
(* Bounds *)

MaxFileRows == 2    \* records in the seed file: 0..MaxFileRows
MaxAbsent   == 1    \* expected columns missing from the file's header
MaxDocs     == 2    \* documents another writer may bring the collection to
MaxRuns     == 2    \* cap on bodyRuns
MaxExtra    == 3    \* rows appended to the base wind table
MaxCleanRows == 1   \* rows of the tables given to the cleaning harness

-----------------------------------------------------------------------------
(* Tables *)

Range(s) == {s[i] : i \in DOMAIN s}

Has(t, c) == c \in Range(t.cols)

EmptyFrame == [cols |-> <<>>, rows |-> <<>>]

\* DataFrame.empty: any axis of length 0
IsEmpty(t) == Len(t.rows) = 0 \/ Len(t.cols) = 0

SeqWithout(s, c) == SelectSeq(s, LAMBDA x : x # c)

\* df.drop(columns=[c], inplace=True)
DropCol(t, c) ==
    [cols |-> SeqWithout(t.cols, c),
     rows |-> [i \in DOMAIN t.rows |->
                 [k \in (DOMAIN t.rows[i]) \ {c} |-> t.rows[i][k]]]]

\* a mutant of SetCol: the column is appended even when the label exists
SetCol_append(t, c, vals) ==
    [cols |-> Append(t.cols, c),
     rows |-> [i \in DOMAIN t.rows |->
                 [k \in (DOMAIN t.rows[i]) \cup {c} |->
                     IF k = c THEN vals[i] ELSE t.rows[i][k]]]]

\* df[c] = vals: overwrite in place, or append a new last column
SetCol(t, c, vals) ==
    [cols |-> IF Has(t, c) THEN t.cols ELSE Append(t.cols, c),
     rows |-> [i \in DOMAIN t.rows |->
                 [k \in (DOMAIN t.rows[i]) \cup {c} |->
                     IF k = c THEN vals[i] ELSE t.rows[i][k]]]]

\* the series df[c]
Col(t, c) == [i \in DOMAIN t.rows |-> t.rows[i][c]]

-----------------------------------------------------------------------------
(* Dates.  A date cell is [kind, m, d]:                                    *)
(*   "str" - text "2024-m-d" as read from the CSV                           *)
(*   "ts"  - a parsed Timestamp                                            *)
(*   "nat" - missing (NaN / NaT)                                           *)
(* A month number is 1..12; 0 stands for NaN.                              *)

MonthNames == <<"January", "February", "March", "April", "May", "June", "July",
                "August", "September", "October", "November", "December">>

NaNName == "NaN"

CanParse(v) == v.kind \in {"ts", "nat"} \/ (v.kind = "str" /\ v.m \in 1..12 /\ v.d \in 1..31)

\* pd.to_datetime on one cell: text is parsed, a Timestamp or NaT is kept
to_datetime(v) ==
    IF v.kind = "str" THEN [kind |-> "ts", m |-> v.m, d |-> v.d] ELSE v

\* .dt.month and .dt.month_name()
dt_month(v) == IF v.kind = "ts" THEN v.m ELSE 0
dt_month_name(v) == IF v.kind = "ts" THEN MonthNames[v.m] ELSE NaNName

\* whether pd.to_datetime(t[c]) succeeds
Parseable(t, c) == \A i \in DOMAIN t.rows : CanParse(t.rows[i][c])

\* df[c] = pd.to_datetime(df[c]); df['Month'] = df[c].dt.month
ParseCol(t, c) == SetCol(t, c, [i \in DOMAIN t.rows |-> to_datetime(t.rows[i][c])])
MonthCol(t, c) == SetCol(t, "Month", [i \in DOMAIN t.rows |-> dt_month(t.rows[i][c])])
MonthNameCol(t, c) ==
    SetCol(t, "Month_Name", [i \in DOMAIN t.rows |-> dt_month_name(t.rows[i][c])])

-----------------------------------------------------------------------------
(* Cleaning stage of load_data *)

\* whether the cleaning stage runs without raising
CleanOK(t) == Has(t, "date") => Parseable(t, "date")

Clean(t) ==
    LET t1 == IF Has(t, "_id") THEN DropCol(t, "_id") ELSE t
    IN  IF Has(t1, "date")
        THEN MonthNameCol(MonthCol(ParseCol(t1, "date"), "date"), "date")
        ELSE t1

-----------------------------------------------------------------------------
(* The seed file and the store.  Labels are shortened: "Temperature" is    *)
(* 'Temperature(C)', "Humidity" 'Humidity (%)', "Barometer"               *)
(* 'Barometer (inHg)', "Wind" 'Wind (mph)'.                                *)

Expected == <<"Date", "Weather", "Temperature", "Humidity", "Barometer", "Wind">>

\* headers the seed file may have: the expected columns less at most
\* MaxAbsent of them, with or without the lower-case 'date' column that
\* the cleaning stage of load_data looks for
Headers ==
    LET Less(A) == SelectSeq(Expected, LAMBDA c : c \notin A)
    IN  {Less(A) : A \in {B \in SUBSET Range(Expected) : Cardinality(B) <= MaxAbsent}}
        \cup {Less(A) \o <<"date">> :
                A \in {B \in SUBSET Range(Expected) : Cardinality(B) <= MaxAbsent}}

\* the cell of record i under label c
Cell(i, c) ==
    IF c \in {"Date", "date"}
    THEN [kind |-> "str", m |-> IF datesOK THEN ((i - 1) % 12) + 1 ELSE 13, d |-> i]
    ELSE i

\* record i as a document (insert_many gives each one an _id)
DocOf(i) == [c \in Range(fileCols) \cup {"_id"} |-> Cell(i, c)]

\* collection c after insert_many has written the first k records of
\* df.to_dict("records")
Inserted(c, k) == c \o [i \in 1..k |-> [DocOf(i) EXCEPT !["_id"] = Len(c) + i]]

\* pd.DataFrame(list(collection.find()))
Frame(docs) ==
    IF docs = <<>> THEN EmptyFrame
    ELSE [cols |-> <<"_id">> \o fileCols, rows |-> docs]

-----------------------------------------------------------------------------
(* load_data *)

Glitches == {"none", "insert", "find"}

Outcome(ops, c, t, fault) == [ops |-> ops, coll |-> c, df |-> t, fault |-> fault]

\* a mutant of NeedsSeed: a collection shorter than the file is seeded again
NeedsSeed_short(c) == Len(c) < fileN \/ Len(c) = 0

\* collection.count_documents({}) == 0
NeedsSeed(c) == Len(c) = 0

\* a mutant of LoadBody: the store is consulted before the file is read
LoadBody_storeFirst(glitch, k) ==
    IF ~storeUp THEN Outcome(<<"count">>, coll, EmptyFrame, "count")
    ELSE IF fileState = "missing"
    THEN Outcome(<<"count", "read_csv">>, coll, EmptyFrame, "read_csv")
    ELSE IF NeedsSeed(coll) /\ (fileN = 0 \/ glitch = "insert")
    THEN Outcome(<<"count", "read_csv", "insert">>, Inserted(coll, k), EmptyFrame, "insert")
    ELSE LET seeds == NeedsSeed(coll)
             c2  == IF seeds THEN Inserted(coll, fileN) ELSE coll
             ops == IF seeds THEN <<"count", "read_csv", "insert", "find">>
                    ELSE <<"count", "read_csv", "find">>
         IN  IF glitch = "find" THEN Outcome(ops, c2, EmptyFrame, "find")
             ELSE IF ~CleanOK(Frame(c2)) THEN Outcome(ops, c2, EmptyFrame, "parse")
             ELSE Outcome(ops, c2, Clean(Frame(c2)), "none")

\* the try block of load_data with the store failing at `glitch` (an
\* insert_many that fails has written k documents): the operations done, the
\* collection afterwards, the table, and the step that raised ("none": returned)
LoadBody(glitch, k) ==
    IF fileState = "missing"
    THEN Outcome(<<"read_csv">>, coll, EmptyFrame, "read_csv")
    ELSE IF ~storeUp
    THEN Outcome(<<"read_csv", "count">>, coll, EmptyFrame, "count")
    ELSE IF NeedsSeed(coll) /\ fileN = 0
    THEN Outcome(<<"read_csv", "count", "insert">>, coll, EmptyFrame, "insert")
    ELSE IF NeedsSeed(coll) /\ glitch = "insert"
    THEN Outcome(<<"read_csv", "count", "insert">>,
                 Inserted(coll, k),
                 EmptyFrame, "insert")
    ELSE LET seeds == NeedsSeed(coll)
             c2  == IF seeds THEN Inserted(coll, fileN) ELSE coll
             ops == IF seeds THEN <<"read_csv", "count", "insert", "find">>
                    ELSE <<"read_csv", "count", "find">>
         IN  IF glitch = "find" THEN Outcome(ops, c2, EmptyFrame, "find")
             ELSE IF ~CleanOK(Frame(c2)) THEN Outcome(ops, c2, EmptyFrame, "parse")
             ELSE Outcome(ops, c2, Clean(Frame(c2)), "none")

\* a mutant of Caught: only the missing file is handled
Caught_fileOnly(fault) == fault = "read_csv"

\* except Exception: every failure of the try block is caught
Caught(fault) == TRUE

\* what load_data returns and reports for an outcome of its body
Returned(r) == IF r.fault = "none" THEN r.df ELSE EmptyFrame
Reported(r) == IF r.fault = "none" THEN <<>> ELSE <<"error">>

-----------------------------------------------------------------------------
(* @st.cache_data *)

NoCache == [set |-> FALSE, value |-> EmptyFrame, notices |-> <<>>, failed |-> FALSE]

\* whether a call is served from the memo
CacheHit(c) == c.set

\* a mutant of CacheStore: only a successful load is memoised
CacheStore_okOnly(r) ==
    IF r.fault = "none"
    THEN [set |-> TRUE, value |-> Returned(r), notices |-> Reported(r), failed |-> FALSE]
    ELSE NoCache

\* the entry made when the function returns: the value and the elements it
\* emitted, which a hit replays
CacheStore(r) ==
    [set |-> TRUE, value |-> Returned(r), notices |-> Reported(r),
     failed |-> r.fault # "none"]

\* a mutant of CacheAfterWrite: the caller holds the cached object itself
CacheAfterWrite_shared(c, t) == IF c.set THEN [c EXCEPT !.value = t] ELSE c

\* the entry after the caller has changed the table it was given: the
\* caller holds a copy, the entry is untouched
CacheAfterWrite(c, t) == c

-----------------------------------------------------------------------------
(* Aggregation for the stacked wind chart.  A wind descriptor is a         *)
(* positive number; 0 stands for NaN.                                      *)

TopN == 10

Min(a, b) == IF a < b THEN a ELSE b

RECURSIVE Distinct(_)
\* the distinct values of a series, in order of first appearance
Distinct(s) ==
    IF s = <<>> THEN <<>>
    ELSE LET d == Distinct(SubSeq(s, 1, Len(s) - 1))
             x == s[Len(s)]
         IN  IF x \in Range(d) THEN d ELSE Append(d, x)

CountIn(s, x) == Cardinality({i \in DOMAIN s : s[i] = x})

RECURSIVE SortDesc(_)
\* stable sort of [val, n] entries by descending n
SortDesc(q) ==
    IF q = <<>> THEN <<>>
    ELSE LET i == CHOOSE j \in DOMAIN q :
                    /\ \A h \in DOMAIN q : q[h].n <= q[j].n
                    /\ \A h \in 1..(j - 1) : q[h].n < q[j].n
             rest == [h \in 1..(Len(q) - 1) |-> IF h < i THEN q[h] ELSE q[h + 1]]
         IN  <<q[i]>> \o SortDesc(rest)

\* Series.value_counts(): NaN dropped, most frequent first
value_counts(s) ==
    LET vals == Distinct(SelectSeq(s, LAMBDA x : x # 0))
    IN  SortDesc([i \in DOMAIN vals |-> [val |-> vals[i], n |-> CountIn(s, vals[i])]])

\* .nlargest(n).index
nlargest_index(vc, n) == {vc[i].val : i \in 1..Min(n, Len(vc))}

top_10_wind_types(t) == nlargest_index(value_counts(Col(t, "Wind")), TopN)

\* a mutant of df_top_wind: the table is not filtered
df_top_wind_unfiltered(t) == t

\* df[df['Wind (mph)'].isin(top_10_wind_types)]
df_top_wind(t) ==
    [t EXCEPT !.rows = SelectSeq(t.rows, LAMBDA r : r["Wind"] \in top_10_wind_types(t))]

\* pivot_table(index='Month', columns='Wind (mph)', aggfunc='size', fill_value=0):
\* groups with a NaN key are dropped, a combination without rows is filled
pivot_table(t) ==
    LET keyed == SelectSeq(t.rows, LAMBDA r : r["Month"] # 0 /\ r["Wind"] # 0)
        size(m, w) == Cardinality({i \in DOMAIN keyed :
                                     keyed[i]["Month"] = m /\ keyed[i]["Wind"] = w})
        index   == {keyed[i]["Month"] : i \in DOMAIN keyed}
        columns == {keyed[i]["Wind"] : i \in DOMAIN keyed}
    IN  [index |-> index, columns |-> columns,
         cell |-> [m \in index, w \in columns |-> IF size(m, w) > 0 THEN size(m, w) ELSE 0]]

NoPivot == [index |-> {}, columns |-> {}, cell |-> <<>>]

-----------------------------------------------------------------------------
(* The script run *)

envVars   == <<fileState, fileN, fileCols, datesOK, storeUp, coll, seedCrashed>>
procVars  == <<cache, bodyRuns, bodyResult>>

\* a mutant of NextPc: the box plot is placed before the histogram
NextPc_boxFirst(p) ==
    CASE p = "pie" -> "heatmap" [] p = "heatmap" -> "bar" [] p = "bar" -> "line"
      [] p = "line" -> "box" [] p = "box" -> "hist" [] p = "hist" -> "scatter_h"
      [] p = "scatter_h" -> "scatter_b" [] p = "scatter_b" -> "wind"
      [] p = "wind" -> "wordcloud" [] p = "wordcloud" -> "done"

\* the statement that follows chart step p in the script
NextPc(p) ==
    CASE p = "pie" -> "heatmap" [] p = "heatmap" -> "bar" [] p = "bar" -> "line"
      [] p = "line" -> "hist" [] p = "hist" -> "box" [] p = "box" -> "scatter_h"
      [] p = "scatter_h" -> "scatter_b" [] p = "scatter_b" -> "wind"
      [] p = "wind" -> "wordcloud" [] p = "wordcloud" -> "done"

\* a new script run (a page load or a widget interaction)
StartRun ==
    /\ pc \in {"idle", "done", "aborted"}
    /\ pc' = "load"
    /\ df' = EmptyFrame
    /\ notices' = <<>>
    /\ emitted' = <<>>
    /\ wind_counts' = NoPivot
    /\ UNCHANGED <<envVars, procVars, last, cl>>

\* df = load_data()
LoadData ==
    /\ pc = "load"
    /\ IF CacheHit(cache)
       THEN /\ df' = cache.value
            /\ notices' = notices \o cache.notices
            /\ last' = [hit |-> TRUE, ops |-> <<>>, fault |-> "none"]
            /\ pc' = "check"
            /\ UNCHANGED <<coll, seedCrashed, procVars>>
       ELSE /\ bodyRuns < MaxRuns
            /\ \E glitch \in Glitches, k \in 0..MaxFileRows :
                 /\ k < fileN \/ k = 0
                 /\ glitch # "insert" => k = 0
                 /\ glitch = "insert" => NeedsSeed(coll) /\ fileN > 0
                 /\ LET r == LoadBody(glitch, k)
                    IN  /\ coll' = r.coll
                        /\ seedCrashed' = (seedCrashed \/
                                (r.fault = "insert" /\ 0 < Len(r.coll) /\ Len(r.coll) < fileN))
                        /\ last' = [hit |-> FALSE, ops |-> r.ops, fault |-> r.fault]
                        /\ bodyRuns' = bodyRuns + 1
                        /\ IF Caught(r.fault)
                           THEN /\ df' = Returned(r)
                                /\ notices' = notices \o Reported(r)
                                /\ cache' = CacheStore(r)
                                /\ bodyResult' = Returned(r)
                                /\ pc' = "check"
                           ELSE /\ pc' = "aborted"
                                /\ UNCHANGED <<df, notices, cache, bodyResult>>
    /\ UNCHANGED <<fileState, fileN, fileCols, datesOK, storeUp, emitted, wind_counts, cl>>

\* a mutant of ShowsCharts: the table is only tested for being there
ShowsCharts_always(t) == TRUE

\* if not df.empty
ShowsCharts(t) == ~IsEmpty(t)

Check ==
    /\ pc = "check"
    /\ IF ShowsCharts(df)
       THEN pc' = "pie" /\ UNCHANGED notices
       ELSE pc' = "done" /\ notices' = Append(notices, "warning")
    /\ UNCHANGED <<envVars, procVars, df, emitted, last, wind_counts, cl>>

\* one chart section: a column read outside any test raises KeyError /
\* ValueError when absent and ends the run; the chart is drawn when the
\* columns its if-test names are present
ChartStep(chart, unguarded, guarded) ==
    /\ pc = chart
    /\ IF unguarded \subseteq Range(df.cols)
       THEN /\ pc' = NextPc(chart)
            /\ emitted' = IF guarded \subseteq Range(df.cols)
                          THEN Append(emitted, chart) ELSE emitted
       ELSE /\ pc' = "aborted"
            /\ UNCHANGED emitted
    /\ UNCHANGED <<envVars, procVars, df, notices, last, wind_counts, cl>>

Pie == ChartStep("pie", {"Weather"}, {})

Heatmap == ChartStep("heatmap", {}, {"Temperature", "Humidity", "Barometer"})

Bar == ChartStep("bar", {}, {"Weather"})

\* df['Date'] = pd.to_datetime(df['Date']); df['Month'] = df['Date'].dt.month
Line ==
    /\ pc = "line"
    /\ IF Has(df, "Date") /\ Parseable(df, "Date")
       THEN /\ df' = MonthCol(ParseCol(df, "Date"), "Date")
            /\ pc' = NextPc("line")
            /\ emitted' = IF Has(df, "Temperature") THEN Append(emitted, "line") ELSE emitted
       ELSE /\ pc' = "aborted"
            /\ UNCHANGED <<df, emitted>>
    /\ cache' = CacheAfterWrite(cache, df')
    /\ UNCHANGED <<envVars, bodyRuns, bodyResult, notices, last, wind_counts, cl>>

Hist == ChartStep("hist", {}, {"Temperature"})

Box == ChartStep("box", {"Month", "Temperature"}, {})

ScatterH == ChartStep("scatter_h", {}, {"Temperature", "Humidity"})

ScatterB == ChartStep("scatter_b", {}, {"Temperature", "Barometer"})

Wind ==
    /\ pc = "wind"
    /\ IF {"Wind", "Month"} \subseteq Range(df.cols)
       THEN /\ wind_counts' = pivot_table(df_top_wind(df))
            /\ pc' = NextPc("wind")
            /\ emitted' = Append(emitted, "wind")
       ELSE /\ pc' = "aborted"
            /\ UNCHANGED <<wind_counts, emitted>>
    /\ UNCHANGED <<envVars, procVars, df, notices, last, cl>>

WordCloud == ChartStep("wordcloud", {}, {"Weather"})

-----------------------------------------------------------------------------
(* The environment *)

StoreDown ==
    /\ storeUp /\ storeUp' = FALSE
    /\ UNCHANGED <<fileState, fileN, fileCols, datesOK, coll, seedCrashed, procVars,
                   pc, df, notices, emitted, last, wind_counts, cl>>

StoreBack ==
    /\ ~storeUp /\ storeUp' = TRUE
    /\ UNCHANGED <<fileState, fileN, fileCols, datesOK, coll, seedCrashed, procVars,
                   pc, df, notices, emitted, last, wind_counts, cl>>

FileRemoved ==
    /\ fileState = "ok" /\ fileState' = "missing"
    /\ UNCHANGED <<fileN, fileCols, datesOK, storeUp, coll, seedCrashed, procVars,
                   pc, df, notices, emitted, last, wind_counts, cl>>

FileRestored ==
    /\ fileState = "missing" /\ fileState' = "ok"
    /\ UNCHANGED <<fileN, fileCols, datesOK, storeUp, coll, seedCrashed, procVars,
                   pc, df, notices, emitted, last, wind_counts, cl>>

\* another writer (the scraper) adds a record to the collection
ExternalInsert ==
    /\ storeUp
    /\ Len(coll) < MaxDocs
    /\ coll' = Append(coll, DocOf(Len(coll) + 1))
    /\ UNCHANGED <<fileState, fileN, fileCols, datesOK, storeUp, seedCrashed, procVars,
                   pc, df, notices, emitted, last, wind_counts, cl>>

\* the server process ends and a new one starts: the memo is lost
Restart ==
    /\ cache' = NoCache
    /\ bodyRuns' = 0
    /\ bodyResult' = EmptyFrame
    /\ pc' = "idle"
    /\ df' = EmptyFrame
    /\ notices' = <<>>
    /\ emitted' = <<>>
    /\ wind_counts' = NoPivot
    /\ last' = [hit |-> FALSE, ops |-> <<>>, fault |-> "none"]
    /\ UNCHANGED <<envVars, cl>>

\* the process is killed while insert_many of line 49 has written k documents
KillDuringSeed ==
    /\ pc = "load" /\ ~CacheHit(cache)
    /\ fileState = "ok" /\ storeUp /\ coll = <<>>
    /\ \E k \in 1..MaxFileRows :
         /\ k < fileN
         /\ coll' = Inserted(coll, k)
    /\ seedCrashed' = TRUE
    /\ cache' = NoCache
    /\ bodyRuns' = 0
    /\ bodyResult' = EmptyFrame
    /\ pc' = "idle"
    /\ df' = EmptyFrame
    /\ notices' = <<>>
    /\ emitted' = <<>>
    /\ wind_counts' = NoPivot
    /\ last' = [hit |-> FALSE, ops |-> <<>>, fault |-> "none"]
    /\ UNCHANGED <<fileState, fileN, fileCols, datesOK, storeUp, cl>>

-----------------------------------------------------------------------------
(* Specification of the dashboard *)

ClIdle == [step |-> 0, T |-> EmptyFrame, once |-> EmptyFrame, twice |-> EmptyFrame]

Init ==
    /\ fileState = "ok"
    /\ fileN \in 0..MaxFileRows
    /\ fileCols \in Headers
    /\ datesOK \in BOOLEAN
    /\ storeUp = TRUE
    /\ coll = <<>>
    /\ seedCrashed = FALSE
    /\ cache = NoCache
    /\ bodyRuns = 0
    /\ bodyResult = EmptyFrame
    /\ pc = "idle"
    /\ df = EmptyFrame
    /\ notices = <<>>
    /\ emitted = <<>>
    /\ last = [hit |-> FALSE, ops |-> <<>>, fault |-> "none"]
    /\ wind_counts = NoPivot
    /\ cl = ClIdle

Next ==
    \/ StartRun \/ LoadData \/ Check
    \/ Pie \/ Heatmap \/ Bar \/ Line \/ Hist \/ Box \/ ScatterH \/ ScatterB
    \/ Wind \/ WordCloud
    \/ StoreDown \/ StoreBack \/ FileRemoved \/ FileRestored \/ ExternalInsert
    \/ Restart \/ KillDuringSeed

Spec == Init /\ [][Next]_vars

-----------------------------------------------------------------------------
(* Specification of the wind aggregation alone: the table starts with one  *)
(* record for each of TopN descriptors and grows by up to MaxExtra         *)
(* records before the section of lines 203-226 runs on it.                 *)

ExtraWinds == {0, 1, TopN + 1, TopN + 2}

WindMonths == {1, 2}

BaseWindTable ==
    [cols |-> <<"Month", "Wind">>,
     rows |-> [i \in 1..TopN |-> [c \in {"Month", "Wind"} |->
                 IF c = "Wind" THEN i ELSE ((i - 1) % Cardinality(WindMonths)) + 1]]]

InitWind ==
    /\ fileState = "ok"
    /\ fileN = 0
    /\ fileCols = <<"Month", "Wind">>
    /\ datesOK = TRUE
    /\ storeUp = TRUE
    /\ coll = <<>>
    /\ seedCrashed = FALSE
    /\ cache = NoCache
    /\ bodyRuns = 0
    /\ bodyResult = EmptyFrame
    /\ pc = "wind"
    /\ df = BaseWindTable
    /\ notices = <<>>
    /\ emitted = <<>>
    /\ last = [hit |-> FALSE, ops |-> <<>>, fault |-> "none"]
    /\ wind_counts = NoPivot
    /\ cl = ClIdle

AddWindRow ==
    /\ pc = "wind"
    /\ Len(df.rows) < TopN + MaxExtra
    /\ \E m \in WindMonths \cup {0}, w \in ExtraWinds :
         df' = [df EXCEPT !.rows = Append(@, [c \in {"Month", "Wind"} |->
                                                IF c = "Wind" THEN w ELSE m])]
    /\ UNCHANGED <<envVars, procVars, pc, notices, emitted, last, wind_counts, cl>>

NextWind == AddWindRow \/ Wind

SpecWind == InitWind /\ [][NextWind]_vars

-----------------------------------------------------------------------------
(* Specification of the cleaning stage alone: the lines 55-65 of load_data *)
(* are applied to a table, then to their own result.                       *)

CleanLabels == <<"_id", "date", "Weather", "Month", "Month_Name">>

Reverse(s) == [i \in DOMAIN s |-> s[Len(s) + 1 - i]]

CleanHeaders ==
    LET Pick(S) == SelectSeq(CleanLabels, LAMBDA c : c \in S)
    IN  {Pick(S) : S \in SUBSET Range(CleanLabels)}
        \cup {Reverse(Pick(S)) : S \in SUBSET Range(CleanLabels)}

DateVals == {[kind |-> "str", m |-> 3, d |-> 4], [kind |-> "str", m |-> 13, d |-> 1],
             [kind |-> "ts", m |-> 3, d |-> 4], [kind |-> "ts", m |-> 4, d |-> 3],
             [kind |-> "nat", m |-> 0, d |-> 0]}

CleanRows(cols) ==
    {[c \in Range(cols) |->
        CASE c = "date" -> d [] c = "Month" -> mo [] c = "Month_Name" -> mn
          [] OTHER -> 1] :
     d \in DateVals, mo \in {0, 3, 5}, mn \in {"March", "May"}}

CleanInputs ==
    UNION {{[cols |-> h, rows |-> r] : r \in [1..n -> CleanRows(h)]} :
           h \in CleanHeaders, n \in 0..MaxCleanRows}

InitClean ==
    /\ fileState = "ok"
    /\ fileN = 0
    /\ fileCols = Expected
    /\ datesOK = TRUE
    /\ storeUp = TRUE
    /\ coll = <<>>
    /\ seedCrashed = FALSE
    /\ cache = NoCache
    /\ bodyRuns = 0
    /\ bodyResult = EmptyFrame
    /\ pc = "idle"
    /\ df = EmptyFrame
    /\ notices = <<>>
    /\ emitted = <<>>
    /\ last = [hit |-> FALSE, ops |-> <<>>, fault |-> "none"]
    /\ wind_counts = NoPivot
    /\ \E t \in CleanInputs : cl = [ClIdle EXCEPT !.T = t]

CleanOnce ==
    /\ cl.step = 0 /\ CleanOK(cl.T)
    /\ cl' = [cl EXCEPT !.step = 1, !.once = Clean(cl.T)]
    /\ UNCHANGED <<envVars, procVars, pc, df, notices, emitted, last, wind_counts>>

\* pd.to_datetime raises on the table: it is not a valid input
CleanRaises ==
    /\ cl.step = 0 /\ ~CleanOK(cl.T)
    /\ cl' = [cl EXCEPT !.step = 3]
    /\ UNCHANGED <<envVars, procVars, pc, df, notices, emitted, last, wind_counts>>

CleanTwice ==
    /\ cl.step = 1 /\ CleanOK(cl.once)
    /\ cl' = [cl EXCEPT !.step = 2, !.twice = Clean(cl.once)]
    /\ UNCHANGED <<envVars, procVars, pc, df, notices, emitted, last, wind_counts>>

NextClean == CleanOnce \/ CleanRaises \/ CleanTwice

SpecClean == InitClean /\ [][NextClean]_vars

-----------------------------------------------------------------------------
(* Properties *)

ChartOrder == <<"pie", "heatmap", "bar", "line", "hist", "box", "scatter_h",
                "scatter_b", "wind", "wordcloud">>

Charts == Range(ChartOrder)

IndexOf(c) == CHOOSE i \in DOMAIN ChartOrder : ChartOrder[i] = c

Errors(n) == Cardinality({i \in DOMAIN n : n[i] = "error"})

\* the step taken is the call df = load_data() returning to the script
LoadReturns == pc = "load" /\ pc' = "check"

\* C1: whatever step of load_data's try block fails (reading the file, the
\* count, the insert, the find, the date parsing), the call returns to the
\* script instead of raising, with exactly one error notice reported and an
\* empty table.
C1_LoadFailureIsContained ==
    (pc \notin {"idle", "load"} /\ ~last.hit /\ last.fault # "none")
        => /\ pc \in {"check", "done"}
           /\ df = EmptyFrame
           /\ Errors(notices) = 1

C1_Witness ==
    /\ pc = "check" /\ ~last.hit /\ last.fault = "find"
    /\ notices = <<"error">> /\ df = EmptyFrame

\* the columns each chart section reads
Needs(chart) ==
    CASE chart = "pie" -> {"Weather"}
      [] chart = "heatmap" -> {"Temperature", "Humidity", "Barometer"}
      [] chart = "bar" -> {"Weather"}
      [] chart = "line" -> {"Date", "Temperature"}
      [] chart = "hist" -> {"Temperature"}
      [] chart = "box" -> {"Date", "Temperature"}
      [] chart = "scatter_h" -> {"Temperature", "Humidity"}
      [] chart = "scatter_b" -> {"Temperature", "Barometer"}
      [] chart = "wind" -> {"Date", "Wind"}
      [] chart = "wordcloud" -> {"Weather"}

AbsentCols == Range(Expected) \ Range(fileCols)

\* C2: with a non-empty table of parseable dates from which exactly one
\* expected column is absent, the run never aborts, and when it is over every
\* chart that does not read the absent column has been emitted.
C2_AbsentColumnIsSkipped ==
    (Cardinality(AbsentCols) = 1 /\ datesOK /\ pc \in Charts \cup {"done", "aborted"}
       /\ ~IsEmpty(df))
        => /\ pc # "aborted"
           /\ pc = "done" =>
                \A c \in Charts : (Needs(c) \cap AbsentCols = {}) => c \in Range(emitted)

\* C3: when the table load_data returned is empty, the run draws no chart,
\* computes no pivot, ends (without aborting) and its last notice is the
\* "No data available" warning.
C3_EmptyTableOnlyWarns ==
    (pc \notin {"idle", "load", "check"} /\ (Len(df.rows) = 0 \/ Len(df.cols) = 0))
        => /\ pc = "done"
           /\ emitted = <<>>
           /\ wind_counts = NoPivot
           /\ notices # <<>> /\ notices[Len(notices)] = "warning"
           /\ Cardinality({i \in DOMAIN notices : notices[i] = "warning"}) = 1

C3_Witness ==
    /\ pc = "done" /\ df = EmptyFrame /\ last.fault = "count"
    /\ notices = <<"error", "warning">> /\ emitted = <<>>

\* record i of table t is document i of collection c
SameRecords(t, c) ==
    /\ Len(t.rows) = Len(c)
    /\ \A i \in DOMAIN c : \A k \in Range(fileCols) \ {"date"} :
           Has(t, k) /\ t.rows[i][k] = c[i][k]

\* C4: a call of load_data whose body runs inserts only when the collection
\* is empty at the check; on a non-empty collection (a partly seeded one
\* included) it inserts nothing, leaves the collection as it is, and a call
\* that succeeds returns exactly the stored records.
C4_SeedsOnlyWhenEmpty ==
    [][(LoadReturns /\ ~last'.hit)
        => /\ ("insert" \in Range(last'.ops)) => coll = <<>>
           /\ coll # <<>> =>
                /\ coll' = coll
                /\ "insert" \notin Range(last'.ops)
                /\ last'.fault = "none" => SameRecords(df', coll)]_vars

C4_Witness ==
    /\ seedCrashed /\ 0 < Len(coll) /\ Len(coll) < fileN
    /\ pc = "check" /\ ~last.hit /\ last.fault = "none"
    /\ last.ops = <<"read_csv", "count", "find">>
    /\ Len(df.rows) = Len(coll)

\* C5: within one server process the body of load_data runs at most once;
\* every call after that is served from the memo without a file or store
\* operation and without changing the collection, and it returns the table
\* the body returned, whatever columns earlier runs added to their tables.
C5_BodyRunsOnce ==
    /\ [](bodyRuns <= 1)
    /\ [][(LoadReturns /\ bodyRuns >= 1)
            => /\ last'.hit /\ last'.ops = <<>>
               /\ bodyRuns' = bodyRuns
               /\ coll' = coll
               /\ df' = bodyResult]_vars

C5_Witness ==
    /\ pc = "done" /\ last.hit /\ bodyRuns = 1
    /\ Has(df, "Month") /\ ~Has(cache.value, "Month") /\ cache.value = bodyResult

Increasing(e) == \A i, j \in DOMAIN e : i < j => IndexOf(e[i]) < IndexOf(e[j])

\* C6: no chart is emitted before load_data has returned; the charts a run
\* emits follow the order pie, heatmap, bar, line, histogram, box, humidity
\* scatter, barometer scatter, wind, word cloud, none twice; a step starts
\* only when the ones before it are over; on a table with every expected
\* column the finished run has emitted all ten.
C6_ChartsInFixedOrder ==
    /\ emitted # <<>> => pc \in Charts \cup {"done", "aborted"}
    /\ Range(emitted) \subseteq Charts
    /\ Increasing(emitted)
    /\ pc \in Charts => \A i \in DOMAIN emitted : IndexOf(emitted[i]) < IndexOf(pc)
    /\ (AbsentCols = {} /\ pc \in Charts)
         => emitted = SubSeq(ChartOrder, 1, IndexOf(pc) - 1)
    /\ (AbsentCols = {} /\ pc = "done" /\ ~IsEmpty(df)) => emitted = ChartOrder

C6_Witness == pc = "done" /\ emitted = ChartOrder

\* C7: the cleaning stage applied to its own result on a valid table runs
\* without raising and changes nothing.
C7_CleanIdempotent ==
    /\ cl.step = 1 => CleanOK(cl.once)
    /\ cl.step = 2 => cl.twice = cl.once

C7_Witness ==
    /\ cl.step = 2 /\ cl.once # cl.T
    /\ Has(cl.T, "_id") /\ Has(cl.T, "date") /\ Has(cl.T, "Month")
    /\ \E i \in DOMAIN cl.T.rows :
          cl.T.rows[i]["date"].kind = "str" /\ cl.T.rows[i]["Month"] # cl.once.rows[i]["Month"]

RECURSIVE SumRow(_, _, _)
SumRow(cell, m, ws) ==
    IF ws = {} THEN 0
    ELSE LET w == CHOOSE x \in ws : TRUE IN cell[m, w] + SumRow(cell, m, ws \ {w})

WindOf(i) == df.rows[i]["Wind"]
MonthOf(i) == df.rows[i]["Month"]
Freq(w) == Cardinality({i \in DOMAIN df.rows : WindOf(i) = w})
Descriptors == {WindOf(i) : i \in DOMAIN df.rows} \ {0}

\* S is a set of the TopN most frequent descriptors of the table
IsTopSet(S) ==
    /\ S \subseteq Descriptors
    /\ Cardinality(S) = Min(TopN, Cardinality(Descriptors))
    /\ \A a \in S, b \in Descriptors \ S : Freq(a) >= Freq(b)

\* C8: the descriptors kept are TopN most frequent ones; each month with a
\* row in the pivot has cells summing to the number of that month's records
\* whose descriptor is kept; no column stands for a descriptor outside them;
\* a cell counts the records of its month and descriptor, 0 when none.
C8_PivotCountsTopTenOnly ==
    (pc = "wordcloud" /\ Has(df, "Wind") /\ Has(df, "Month"))
        => LET S == top_10_wind_types(df)
               P == wind_counts
           IN  /\ IsTopSet(S)
               /\ P.columns \subseteq S
               /\ \A m \in P.index :
                    SumRow(P.cell, m, P.columns)
                      = Cardinality({i \in DOMAIN df.rows : MonthOf(i) = m /\ WindOf(i) \in S})
               /\ \A m \in P.index, w \in P.columns :
                    P.cell[m, w]
                      = Cardinality({i \in DOMAIN df.rows : MonthOf(i) = m /\ WindOf(i) = w})

C8_Witness ==
    /\ pc = "wordcloud" /\ Cardinality(Descriptors) > TopN
    /\ \E i \in DOMAIN df.rows :
          /\ WindOf(i) # 0 /\ WindOf(i) \notin wind_counts.columns
          /\ MonthOf(i) \in wind_counts.index
    /\ \E m \in wind_counts.index, w \in wind_counts.columns : wind_counts.cell[m, w] = 0
    /\ \E m \in wind_counts.index, w \in wind_counts.columns : wind_counts.cell[m, w] > 1

\* C9: a call of load_data whose body runs while the seed file is missing
\* does nothing but the file read: the collection is not queried and not
\* changed, whatever it holds, and the call returns the empty table with one
\* error notice.
C9_MissingFileStoreUntouched ==
    [][(pc = "load" /\ pc' \notin {"load", "idle"} /\ ~cache.set /\ fileState = "missing")
        => /\ pc' = "check"
           /\ last'.ops = <<"read_csv">>
           /\ coll' = coll
           /\ df' = EmptyFrame
           /\ notices' = <<"error">>]_vars

C9_Witness ==
    /\ pc = "check" /\ ~last.hit /\ last.ops = <<"read_csv">> /\ last.fault = "read_csv"
    /\ storeUp /\ coll # <<>> /\ df = EmptyFrame

\* C10: a load that failed is memoised; while the memo lasts every later call
\* returns the empty table without a file or store operation, and the run
\* ends with the "No data available" warning, whatever the store and the
\* file have become.
C10_FailedLoadIsMemoised ==
    /\ []((pc \in {"check", "done"} /\ ~last.hit /\ last.fault # "none")
            => cache.set /\ cache.failed /\ cache.value = EmptyFrame)
    /\ [][(pc = "load" /\ pc' \notin {"load", "idle"} /\ cache.failed)
            => /\ pc' = "check"
               /\ last'.hit /\ last'.ops = <<>>
               /\ coll' = coll
               /\ cache' = cache
               /\ df' = EmptyFrame]_vars
    /\ []((pc \notin {"idle", "load", "check"} /\ last.hit /\ cache.failed)
            => /\ pc = "done" /\ emitted = <<>>
               /\ notices # <<>> /\ notices[Len(notices)] = "warning")

C10_Witness ==
    /\ pc = "done" /\ last.hit /\ cache.failed
    /\ fileState = "ok" /\ storeUp /\ Len(coll) = MaxDocs
    /\ notices[Len(notices)] = "warning"

====
